---- MODULE Spec2Model ----
(***************************************************************************)
(* mcp-time-srv: the session tables of the Streamable HTTP endpoint (/mcp) *)
(* and of the legacy HTTP+SSE endpoints (/sse, /messages) of server.ts,    *)
(* and the two time tools every tool-serving instance registers.           *)
(***************************************************************************)
EXTENDS Integers, Sequences, FiniteSets, TLC

\* Bound of the model: how many transports (sessions of either variant) are
\* ever constructed.
MaxTransports == 2

(***************************************************************************)
(* JavaScript values                                                       *)
(***************************************************************************)
\* An absent header / query parameter / optional argument.
undefined == "undefined"

\* A table lookup that finds nothing: the value undefined, as a handle.
Undefined == 0

\* A table lookup that finds a member inherited from Object.prototype: both
\* tables are plain object literals ({}), so table["constructor"] is the
\* function Object, which is truthy and is no transport.
InheritedMember == -1

\* Names every plain object inherits.
ObjectPrototypeKeys == {"constructor", "toString"}

\* if (x) on a string or undefined.
Truthy(s) == s # undefined /\ s # ""

\* table[key] on a Record<string, Transport> built from {}.
Get(table, key) ==
    IF key \in DOMAIN table THEN table[key]
    ELSE IF key \in ObjectPrototypeKeys THEN InheritedMember
    ELSE Undefined

\* table[key] = value
Put(table, key, value) ==
    [k \in (DOMAIN table) \cup {key} |-> IF k = key THEN value ELSE table[k]]

\* delete table[key]
Delete(table, key) ==
    [k \in (DOMAIN table) \ {key} |-> table[k]]

\* node:crypto randomUUID(): the n-th identifier the process draws. Identifiers
\* are 128-bit random values; two draws are taken never to coincide.
randomUUID(n) == "uuid-" \o ToString(n)

(***************************************************************************)
(* Requests                                                                *)
(***************************************************************************)
\* What a client may send as mcp-session-id header or sessionId query
\* parameter: nothing, the empty string, an inherited property name, or any
\* identifier the server issues (before or after it is issued).
SessionIds ==
    {undefined, "", "constructor"} \cup {randomUUID(n) : n \in 1..MaxTransports}

\* HTTP verbs app.all("/mcp") lets through.
Methods == {"POST", "GET"}

\* Request payloads, by JSON-RPC method.
Bodies == {"initialize", "tools/call"}

\* isInitializeRequest(req.body)
isInitializeRequest(body) == body = "initialize"

\* The 400 body of /mcp and of /messages.
BadHandshakeBody ==
    [jsonrpc |-> "2.0",
     error |-> [code |-> -32000, message |-> "Bad Request: invalid MCP handshake"],
     id |-> "null"]

UnknownSessionBody == "Unknown or expired sessionId"

VARIABLES
    streamableTransports,  \* Record<string, StreamableHTTPServerTransport>
    sseTransports,         \* Record<string, SSEServerTransport>
    transports,            \* every transport constructed, by handle 1..Len
    servers,               \* every McpServer built: the transports it was connected to
    localTzs,              \* the localTz each McpServer's tool handlers closed over
    uuids,                 \* how many identifiers randomUUID has produced
    pending,               \* /mcp handlers suspended at await server.connect(transport)
    inflight,              \* requests handed to a transport whose handling has not ended
    last,                  \* the step just taken: its request and its outcome
    clock,                 \* the system clock: an index into ClockInstants
    call,                  \* the tool invocation just made: its name and arguments
    result,                \* what that invocation produced
    applied                \* the Time Engine function just applied: arguments and value

vars == <<streamableTransports, sseTransports, transports, servers, localTzs, uuids,
          pending, inflight, last, clock, call, result, applied>>

\* The variables of the tool layer, which no session step touches.
toolVars == <<clock, call, result, applied>>

\* The variables of the session layer, which no tool invocation touches.
sessionVars ==
    <<streamableTransports, sseTransports, transports, servers, localTzs, uuids, pending,
      inflight, last>>

Handles == 1..Len(transports)

\* The McpServer instances connected to transport h.
ServersOf(h) == {s \in 1..Len(servers) : h \in servers[s]}

\* A step's record before its fields are filled in.
Blank ==
    [op |-> "start", sessionId |-> undefined, method |-> "", body |-> "",
     status |-> 0, resBody |-> "", threw |-> FALSE,
     transport |-> Undefined, servedBy |-> {}, created |-> Undefined,
     issued |-> undefined, repeat |-> FALSE, early |-> FALSE]

\* No tool has been invoked yet.
NoCall ==
    [name |-> "", server |-> 0, timezone |-> undefined, source_timezone |-> undefined,
     time |-> undefined, target_timezone |-> undefined]

NoResult == [reached |-> FALSE, threw |-> FALSE, content |-> <<>>]

\* No Time Engine function has been applied.
NoApplication == [fn |-> ""]

Init ==
    /\ streamableTransports = <<>>
    /\ sseTransports = <<>>
    /\ transports = <<>>
    /\ servers = <<>>
    /\ localTzs = <<>>
    /\ uuids = 0
    /\ pending = {}
    /\ inflight = {}
    /\ last = Blank
    /\ clock = 1
    /\ call = NoCall
    /\ result = NoResult
    /\ applied = NoApplication

(***************************************************************************)
(* 1. buildMcpServer and McpServer.connect                                 *)
(***************************************************************************)
\* A local zone that is looked up anew and has changed once a server exists.
getLocalTimezoneDrifting == IF servers = <<>> THEN "Europe/London" ELSE "UTC"

\* Settings.defaultZone.name
getLocalTimezone == "Europe/London"

\* const localTz = getLocalTimezone(), evaluated by each buildMcpServer() and
\* closed over by the tool handlers of the instance it returns.
captureLocalTz(tzs) == Append(tzs, getLocalTimezone)

\* Mutant of buildMcpServer: one module-level McpServer handed to every caller.
buildMcpServerShared(svs) == IF svs = <<>> THEN <<{}>> ELSE svs

\* buildMcpServer(): a new McpServer, connected to nothing yet; the instance
\* returned is the last one of the result.
buildMcpServer(svs) == Append(svs, {})

\* await server.connect(transport), for the instance buildMcpServer returned.
connect(svs, h) == [svs EXCEPT ![Len(svs)] = @ \cup {h}]

\* new StreamableHTTPServerTransport({...}): no session identifier until the
\* initialize request has been handled.
NewStreamableTransport ==
    [kind |-> "streamable", sessionId |-> undefined, closed |-> FALSE, connected |-> FALSE]

\* new SSEServerTransport("/messages", res): the constructor draws the
\* session identifier.
NewSseTransport(id) ==
    [kind |-> "sse", sessionId |-> id, closed |-> FALSE, connected |-> FALSE]

(***************************************************************************)
(* 3-A. app.all("/mcp")                                                    *)
(***************************************************************************)
\* res.status(400).json({...}); return
RejectHandshake(rec) ==
    /\ last' = [rec EXCEPT !.status = 400, !.resBody = BadHandshakeBody]
    /\ UNCHANGED <<streamableTransports, sseTransports, transports, servers, localTzs, uuids, pending>>
    /\ UNCHANGED toolVars

\* await transport.handleRequest(req, res, req.body) on a transport found in
\* the table. An inherited member has no handleRequest: the call throws a
\* TypeError and the handler's promise rejects with no response written.
DispatchStreamable(rec, found) ==
    /\ last' = IF found = InheritedMember
               THEN [rec EXCEPT !.threw = TRUE, !.transport = found]
               ELSE [rec EXCEPT !.transport = found, !.servedBy = ServersOf(found)]
    /\ UNCHANGED <<streamableTransports, sseTransports, transports, servers, localTzs, uuids, pending>>
    /\ UNCHANGED toolVars

\* The handshake branch up to its suspension at await server.connect(transport).
BeginHandshake(rec) ==
    LET h == Len(transports) + 1 IN
    /\ Len(transports) < MaxTransports
    /\ transports' = Append(transports, NewStreamableTransport)
    /\ servers' = connect(buildMcpServer(servers), h)
    /\ localTzs' = captureLocalTz(localTzs)
    /\ pending' = pending \cup {[transport |-> h, method |-> rec.method]}
    /\ last' = [rec EXCEPT !.created = h]
    /\ UNCHANGED <<streamableTransports, sseTransports, uuids>>
    /\ UNCHANGED toolVars

\* A lookup that takes the first entry of the table, whatever the key.
lookupStreamableFirst(sessionId) ==
    IF DOMAIN streamableTransports = {} THEN Undefined
    ELSE streamableTransports[CHOOSE k \in DOMAIN streamableTransports :
                                \A j \in DOMAIN streamableTransports :
                                    streamableTransports[k] <= streamableTransports[j]]

\* Mutant of lookupStreamable: the lookup reads the legacy table.
lookupStreamableLegacy(sessionId) == Get(sseTransports, sessionId)

\* streamableTransports[sessionId]
lookupStreamable(sessionId) == Get(streamableTransports, sessionId)

McpRequest(sessionId, method, body) ==
    LET rec == [Blank EXCEPT !.op = "mcp", !.sessionId = sessionId,
                             !.method = method, !.body = body]
        found == lookupStreamable(sessionId)
    IN  IF Truthy(sessionId) /\ found # Undefined
        THEN DispatchStreamable(rec, found)
        ELSE IF ~Truthy(sessionId) /\ isInitializeRequest(body)
        THEN BeginHandshake(rec)
        ELSE RejectHandshake(rec)

\* Mutant of onsessioninitialized: the entry is stored under a fixed key.
onsessioninitializedFixedKey(table, id, h) == Put(table, "session", h)

\* onsessioninitialized: id => { streamableTransports[id] = transport }
onsessioninitialized(table, id, h) == Put(table, id, h)

\* The rest of the handshake: server.connect has resolved and the new
\* transport handles the initialize request. A POST makes the transport draw
\* its identifier and call onsessioninitialized; any other verb is answered
\* by the transport with an error and no session is initialized.
McpHandshakeResume(p) ==
    LET h == p.transport
        id == randomUUID(uuids + 1)
        rec == [Blank EXCEPT !.op = "mcpInit", !.method = p.method,
                             !.body = "initialize", !.transport = h,
                             !.servedBy = ServersOf(h)]
    IN  /\ p \in pending
        /\ pending' = pending \ {p}
        /\ IF p.method = "POST"
           THEN /\ uuids' = uuids + 1
                /\ transports' = [transports EXCEPT ![h].sessionId = id, ![h].connected = TRUE]
                /\ streamableTransports' = onsessioninitialized(streamableTransports, id, h)
                /\ last' = [rec EXCEPT !.issued = id]
           ELSE /\ transports' = [transports EXCEPT ![h].connected = TRUE]
                /\ last' = rec
                /\ UNCHANGED <<streamableTransports, uuids>>
        /\ UNCHANGED <<sseTransports, servers, localTzs>>
        /\ UNCHANGED toolVars

\* Mutant of onclose: the entry is left in the table.
oncloseKeepsEntry(table, sessionId) == table

\* transport.onclose = () => { if (transport.sessionId) delete ... }
onclose(table, sessionId) ==
    IF Truthy(sessionId) THEN Delete(table, sessionId) ELSE table

\* The transport reports its closure (a DELETE request, a shutdown): the SDK
\* calls onclose, on any transport that has been handed its first request,
\* initialized or not, and any number of times.
StreamableClose(h) ==
    /\ h \in Handles
    /\ transports[h].kind = "streamable"
    /\ transports[h].connected
    /\ streamableTransports' = onclose(streamableTransports, transports[h].sessionId)
    /\ transports' = [transports EXCEPT ![h].closed = TRUE]
    /\ last' = [Blank EXCEPT !.op = "mcpClose", !.transport = h,
                             !.sessionId = transports[h].sessionId,
                             !.repeat = transports[h].closed]
    /\ UNCHANGED <<sseTransports, servers, localTzs, uuids, pending>>
    /\ UNCHANGED toolVars

(***************************************************************************)
(* 3-B. app.get("/sse") and app.post("/messages")                          *)
(***************************************************************************)
\* A registration under one key for every legacy transport.
registerSseFixedKey(table, id, h) == Put(table, "sse", h)

\* Mutant of registerSse: the transport is not put into the table.
registerSseOmitted(table, id, h) == table

\* sseTransports[transport.sessionId] = transport
registerSse(table, id, h) == Put(table, id, h)

\* GET /sse up to its suspension at await server.connect(transport).
SseOpen ==
    LET h == Len(transports) + 1
        id == randomUUID(uuids + 1)
    IN  /\ Len(transports) < MaxTransports
        /\ uuids' = uuids + 1
        /\ transports' = Append(transports, NewSseTransport(id))
        /\ sseTransports' = registerSse(sseTransports, id, h)
        /\ servers' = connect(buildMcpServer(servers), h)
        /\ localTzs' = captureLocalTz(localTzs)
        /\ last' = [Blank EXCEPT !.op = "sseOpen", !.method = "GET",
                                 !.created = h, !.issued = id]
        /\ UNCHANGED <<streamableTransports, pending>>
        /\ UNCHANGED toolVars

\* await server.connect(transport) resolves; the handler ends.
SseConnected(h) ==
    /\ h \in Handles
    /\ transports[h].kind = "sse"
    /\ ~transports[h].connected
    /\ transports' = [transports EXCEPT ![h].connected = TRUE]
    /\ last' = [Blank EXCEPT !.op = "sseConnected", !.transport = h]
    /\ UNCHANGED <<streamableTransports, sseTransports, servers, localTzs, uuids, pending>>
    /\ UNCHANGED toolVars

\* Mutant of onSseClose: the entry is left in the table.
onSseCloseKeepsEntry(table, sessionId) == table

\* res.on("close", () => { delete sseTransports[transport.sessionId] })
onSseClose(table, sessionId) == Delete(table, sessionId)

\* The response stream closes: "close" is emitted once per response.
SseClose(h) ==
    /\ h \in Handles
    /\ transports[h].kind = "sse"
    /\ ~transports[h].closed
    /\ sseTransports' = onSseClose(sseTransports, transports[h].sessionId)
    /\ transports' = [transports EXCEPT ![h].closed = TRUE]
    /\ last' = [Blank EXCEPT !.op = "sseClose", !.transport = h,
                             !.sessionId = transports[h].sessionId,
                             !.early = ~transports[h].connected]
    /\ UNCHANGED <<streamableTransports, servers, localTzs, uuids, pending>>
    /\ UNCHANGED toolVars

\* Mutant of lookupSse: the lookup falls back to the streamable table.
lookupSseEitherTable(sessionId) ==
    IF sessionId \in DOMAIN streamableTransports
    THEN streamableTransports[sessionId]
    ELSE Get(sseTransports, sessionId)

\* const transport = sseTransports[sessionId]
lookupSse(sessionId) == Get(sseTransports, sessionId)

PostMessage(sessionId, body) ==
    LET rec == [Blank EXCEPT !.op = "messages", !.sessionId = sessionId,
                             !.method = "POST", !.body = body]
        transport == lookupSse(sessionId)
    IN  /\ last' = IF transport = Undefined
                   THEN [rec EXCEPT !.status = 400, !.resBody = UnknownSessionBody]
                   ELSE IF transport = InheritedMember
                   THEN [rec EXCEPT !.threw = TRUE, !.transport = transport]
                   ELSE [rec EXCEPT !.transport = transport,
                                    !.servedBy = ServersOf(transport)]
        /\ UNCHANGED <<streamableTransports, sseTransports, transports, servers, localTzs, uuids, pending>>
        /\ UNCHANGED toolVars

\* The routes and the transports' callbacks. This specification follows the
\* tables and leaves aside how long a transport takes over a request.
Next ==
    \/ \E sessionId \in SessionIds, method \in Methods, body \in Bodies :
          McpRequest(sessionId, method, body) /\ UNCHANGED inflight
    \/ \E p \in pending : McpHandshakeResume(p) /\ UNCHANGED inflight
    \/ \E h \in Handles : StreamableClose(h) /\ UNCHANGED inflight
    \/ SseOpen /\ UNCHANGED inflight
    \/ \E h \in Handles : SseConnected(h) /\ UNCHANGED inflight
    \/ \E h \in Handles : SseClose(h) /\ UNCHANGED inflight
    \/ \E sessionId \in SessionIds, body \in Bodies :
          PostMessage(sessionId, body) /\ UNCHANGED inflight

Spec == Init /\ [][Next]_vars

(***************************************************************************)
(* The routes with the requests their transports are still handling        *)
(***************************************************************************)
\* The requests in flight once the step recorded in rec has been taken: a
\* route that found or made a transport has called its handleRequest or
\* handlePostMessage, and the promise awaited is not settled yet.
started(rec) ==
    IF rec.transport \in Handles
    THEN inflight \cup {[transport |-> rec.transport, sessionId |-> rec.sessionId,
                         method |-> rec.method]}
    ELSE inflight

\* The transport has dealt with a request (the response has ended, the stream
\* has been closed): the promise settles and the route's handler ends.
Complete(r) ==
    /\ r \in inflight
    /\ inflight' = inflight \ {r}
    /\ last' = [Blank EXCEPT !.op = "complete", !.transport = r.transport,
                             !.sessionId = r.sessionId, !.method = r.method]
    /\ UNCHANGED <<streamableTransports, sseTransports, transports, servers, localTzs,
                   uuids, pending>>
    /\ UNCHANGED toolVars

\* The session identifiers clients send once sessions exist.
IssuedIds == {randomUUID(n) : n \in 1..MaxTransports}

\* The routes, the transports' callbacks and the completion of requests.
FlightNext ==
    \/ McpRequest(undefined, "POST", "initialize") /\ inflight' = started(last')
    \/ \E sessionId \in IssuedIds, method \in Methods :
          McpRequest(sessionId, method, "tools/call") /\ inflight' = started(last')
    \/ \E p \in pending : McpHandshakeResume(p) /\ inflight' = started(last')
    \/ \E h \in Handles : StreamableClose(h) /\ UNCHANGED inflight
    \/ SseOpen /\ UNCHANGED inflight
    \/ \E h \in Handles : SseConnected(h) /\ UNCHANGED inflight
    \/ \E h \in Handles : SseClose(h) /\ UNCHANGED inflight
    \/ \E sessionId \in IssuedIds : PostMessage(sessionId, "tools/call")
                                       /\ inflight' = started(last')
    \/ \E r \in inflight : Complete(r)

FlightSpec == Init /\ [][FlightNext]_vars

(***************************************************************************)
(* Time handling: strings, zones, the clock and Luxon's DateTime           *)
(***************************************************************************)
\* s.includes(sub)
includes(s, sub) ==
    \E i \in 1..(Len(s) - Len(sub) + 1) : SubSeq(s, i, i + Len(sub) - 1) = sub

\* The i-th character of s.
charAt(s, i) == SubSeq(s, i, i)

Digits == {"0", "1", "2", "3", "4", "5", "6", "7", "8", "9"}

\* The number a decimal digit stands for.
digitValue(c) == CHOOSE d \in 0..9 : ToString(d) = c

\* String(n).padStart(2, "0") and padStart(3, "0"), for n >= 0.
pad2(n) == IF n < 10 THEN "0" \o ToString(n) ELSE ToString(n)

pad3(n) == IF n < 10 THEN "00" \o ToString(n)
           ELSE IF n < 100 THEN "0" \o ToString(n) ELSE ToString(n)

\* The zone names the platform's zone database knows (a sample of it).
ValidZones ==
    {"UTC", "Europe/London", "Asia/Tokyo", "Asia/Kathmandu", "America/New_York"}

\* Zone arguments a caller may pass: known names, unknown names, a name that
\* reads like one of convertTime's error messages, the empty string, nothing.
ZoneArgs ==
    ValidZones \cup {"Mars/Gale_Crater", "Invalid source timezone", "", undefined}

\* time arguments a caller may pass.
TimeArgs ==
    {"14:30", "00:30", "23:59", "24:00", "25:00", "12:60", "9:00", " lunchtime ", undefined}

\* Instants are minutes since 2025-03-29T00:00Z; the clock also carries the
\* seconds and milliseconds within its minute. Europe/London goes from +00:00
\* to +01:00 at 2025-03-30T01:00Z, inside the window.
ClockInstants ==
    << [t |-> 720, s |-> 15, ms |-> 0],
       [t |-> 1470, s |-> 0, ms |-> 123],
       [t |-> 2190, s |-> 59, ms |-> 7] >>

\* zone.offset(ts): the zone's UTC offset in minutes at instant t.
offset(zone, t) ==
    CASE zone = "UTC" -> 0
      [] zone = "Europe/London" -> IF t < 1500 THEN 0 ELSE 60
      [] zone = "Asia/Tokyo" -> 540
      [] zone = "Asia/Kathmandu" -> 345
      [] zone = "America/New_York" -> -240

\* IANAZone.isValidZone(tz)
isValidTimezone(tz) == tz \in ValidZones

\* A Luxon DateTime: an instant, the zone it is shown in and the offset there.
DateTimeAt(t, s, ms, zone) ==
    [ts |-> t, s |-> s, ms |-> ms, zone |-> zone, o |-> offset(zone, t)]

\* DateTime.now().setZone(zone)
nowInZone(zone) ==
    DateTimeAt(ClockInstants[clock].t, ClockInstants[clock].s, ClockInstants[clock].ms, zone)

\* dt.setZone(zone): the same instant shown in another zone.
setZone(dt, zone) == DateTimeAt(dt.ts, dt.s, dt.ms, zone)

\* The local calendar fields of a DateTime.
localDay(dt) == (dt.ts + dt.o) \div 1440

localHour(dt) == ((dt.ts + dt.o) % 1440) \div 60

localMinute(dt) == (dt.ts + dt.o) % 60

\* An instant computed with the offset in force now, whatever the zone's
\* offset is at the local time asked for.
fixOffsetNoAdjust(localTS, o, zone) == localTS - o

\* Luxon's fixOffset: the instant of a local time in a zone, starting from the
\* offset in force before the change.
fixOffset(localTS, o, zone) ==
    LET guess1 == localTS - o
        o2 == offset(zone, guess1)
        guess2 == guess1 - (o2 - o)
        o3 == offset(zone, guess2)
    IN  IF o = o2 THEN guess1
        ELSE IF o2 = o3 THEN guess2
        ELSE localTS - (IF o2 < o3 THEN o2 ELSE o3)

\* dt.set({ hour, minute, second: 0, millisecond: 0 })
setTime(dt, hour, minute) ==
    DateTimeAt(fixOffset(localDay(dt) * 1440 + hour * 60 + minute, dt.o, dt.zone),
               0, 0, dt.zone)

\* The offset part of toISO: "Z" for the fixed UTC zone, else +hh:mm / -hh:mm.
isoOffset(dt) ==
    IF dt.zone = "UTC" /\ dt.o = 0 THEN "Z"
    ELSE IF dt.o < 0
    THEN "-" \o pad2((-dt.o) \div 60) \o ":" \o pad2((-dt.o) % 60)
    ELSE "+" \o pad2(dt.o \div 60) \o ":" \o pad2(dt.o % 60)

\* dt.toISO({ includeOffset: true, suppressMilliseconds: true }): the
\* milliseconds are left out only when they are 0.
toISO(dt) ==
    "2025-03-" \o pad2(29 + localDay(dt)) \o "T"
        \o pad2(localHour(dt)) \o ":" \o pad2(localMinute(dt)) \o ":" \o pad2(dt.s)
        \o (IF dt.ms = 0 THEN "" ELSE "." \o pad3(dt.ms))
        \o isoOffset(dt)

\* The schema of convert_time's time argument: /^\d{2}:\d{2}$/
matchesTimePattern(time) ==
    /\ time # undefined
    /\ Len(time) = 5
    /\ charAt(time, 1) \in Digits
    /\ charAt(time, 2) \in Digits
    /\ charAt(time, 3) = ":"
    /\ charAt(time, 4) \in Digits
    /\ charAt(time, 5) \in Digits

\* DateTime.fromFormat(timeStr, 'HH:mm'): two digits, a colon, two digits;
\* Luxon takes hour 0..23 with minute 0..59, and also 24:00, which it reads
\* as 00:00 of the next day.
fromFormat(timeStr) ==
    IF ~matchesTimePattern(timeStr)
    THEN [isValid |-> FALSE, hour |-> 0, minute |-> 0]
    ELSE LET hh == 10 * digitValue(charAt(timeStr, 1)) + digitValue(charAt(timeStr, 2))
             mm == 10 * digitValue(charAt(timeStr, 4)) + digitValue(charAt(timeStr, 5))
         IN  IF (hh <= 23 /\ mm <= 59) \/ (hh = 24 /\ mm = 0)
             THEN [isValid |-> TRUE, hour |-> hh % 24, minute |-> mm]
             ELSE [isValid |-> FALSE, hour |-> 0, minute |-> 0]

\* A value returned, or an Error thrown with a message.
Return(value) == [ok |-> TRUE, value |-> value, message |-> ""]

Throw(message) == [ok |-> FALSE, value |-> <<>>, message |-> message]

getCurrentTime(timezoneName) ==
    IF ~isValidTimezone(timezoneName)
    THEN Throw("Invalid timezone: " \o timezoneName)
    ELSE Return([timezone |-> timezoneName,
                 datetime |-> toISO(nowInZone(timezoneName))])

\* (x).toFixed(2) for x = |minutes| / 60, as hundredths of an hour: no such
\* quotient lies halfway between two hundredths.
hundredths(minutes) == (minutes * 100 + 30) \div 60

\* offsetDiffHours.toFixed(2).replace(/\.00$/, '').replace(/(\.\d)0$/, '$1')
\* for a non-integral number of hours.
fixed2Trimmed(minutes) ==
    LET neg == minutes < 0
        h100 == hundredths(IF neg THEN -minutes ELSE minutes)
        whole == h100 \div 100
        frac == h100 % 100
        sign == IF neg THEN "-" ELSE ""
    IN  IF frac = 0 THEN sign \o ToString(whole)
        ELSE IF frac % 10 = 0 THEN sign \o ToString(whole) \o "." \o ToString(frac \div 10)
        ELSE sign \o ToString(whole) \o "." \o pad2(frac)

\* A time_difference string that always puts a plus sign in front.
timeDiffStrAlwaysPlus(minutes) ==
    IF minutes % 60 = 0
    THEN "+" \o ToString(minutes \div 60) \o "h"
    ELSE "+" \o fixed2Trimmed(minutes) \o "h"

\* The time_difference string of convertTime.
timeDiffStr(minutes) ==
    LET plus == IF minutes >= 0 THEN "+" ELSE "" IN
    IF minutes % 60 = 0
    THEN plus \o ToString(minutes \div 60) \o "h"
    ELSE plus \o fixed2Trimmed(minutes) \o "h"

\* An offset difference taken at the current instant instead.
offsetDiffAtNow(sourceDt, targetDt) == nowInZone(targetDt.zone).o - nowInZone(sourceDt.zone).o

\* const offsetDiffMinutes = targetDt.offset - sourceDt.offset
offsetDiffMinutes(sourceDt, targetDt) == targetDt.o - sourceDt.o

\* A convertTime that looks at the target zone before the source zone.
convertTimeTargetFirst(sourceTz, timeStr, targetTz) ==
    IF ~isValidTimezone(targetTz)
    THEN Throw("Invalid target timezone: " \o targetTz)
    ELSE IF ~isValidTimezone(sourceTz)
    THEN Throw("Invalid source timezone: " \o sourceTz)
    ELSE LET parsedTime == fromFormat(timeStr) IN
         IF ~parsedTime.isValid
         THEN Throw("Invalid time format. Expected HH:MM [24-hour format]")
         ELSE LET sourceDt == setTime(nowInZone(sourceTz), parsedTime.hour, parsedTime.minute)
                  targetDt == setZone(sourceDt, targetTz)
              IN  Return([source |-> [timezone |-> sourceTz, datetime |-> toISO(sourceDt)],
                          target |-> [timezone |-> targetTz, datetime |-> toISO(targetDt)],
                          time_difference |->
                              timeDiffStr(offsetDiffMinutes(sourceDt, targetDt))])

convertTime(sourceTz, timeStr, targetTz) ==
    IF ~isValidTimezone(sourceTz)
    THEN Throw("Invalid source timezone: " \o sourceTz)
    ELSE IF ~isValidTimezone(targetTz)
    THEN Throw("Invalid target timezone: " \o targetTz)
    ELSE LET parsedTime == fromFormat(timeStr) IN
         IF ~parsedTime.isValid
         THEN Throw("Invalid time format. Expected HH:MM [24-hour format]")
         ELSE LET sourceDt == setTime(nowInZone(sourceTz), parsedTime.hour, parsedTime.minute)
                  targetDt == setZone(sourceDt, targetTz)
              IN  Return([source |-> [timezone |-> sourceTz, datetime |-> toISO(sourceDt)],
                          target |-> [timezone |-> targetTz, datetime |-> toISO(targetDt)],
                          time_difference |->
                              timeDiffStr(offsetDiffMinutes(sourceDt, targetDt))])

(***************************************************************************)
(* 1. The tools buildMcpServer registers                                   *)
(***************************************************************************)
\* JSON.stringify(result, null, 2) of a TimeResult, at a nesting depth.
stringifyTimeResult(r, indent) ==
    "{\n" \o indent \o "  \"timezone\": \"" \o r.timezone \o "\",\n"
          \o indent \o "  \"datetime\": \"" \o r.datetime \o "\"\n"
          \o indent \o "}"

\* JSON.stringify(result, null, 2) of a TimeConversionResult.
stringifyConversion(r) ==
    "{\n  \"source\": " \o stringifyTimeResult(r.source, "  ") \o ",\n"
        \o "  \"target\": " \o stringifyTimeResult(r.target, "  ") \o ",\n"
        \o "  \"time_difference\": \"" \o r.time_difference \o "\"\n}"

\* return { content: [{ type: "text", text }] }
TextResult(text) ==
    [reached |-> TRUE, threw |-> FALSE, content |-> <<[type |-> "text", text |-> text]>>]

\* The arguments failed the tool's schema: the handler is not called.
SchemaRejected == [reached |-> FALSE, threw |-> FALSE, content |-> <<>>]

\* x ?? localTz: only a missing argument gives way to the local zone.
orLocalNullish(x, localTz) == IF x = undefined THEN localTz ELSE x

\* x || localTz
orLocal(x, localTz) == IF Truthy(x) THEN x ELSE localTz

\* The catch block of the get_current_time handler.
getCurrentTimeCatch(message, effectiveTimezone) ==
    IF includes(message, "Invalid timezone")
    THEN TextResult("Error: Invalid timezone specified ('" \o effectiveTimezone
            \o "'). Please provide a valid IANA timezone name (e.g., 'America/New_York', 'Europe/London').")
    ELSE TextResult("Error processing get_current_time: " \o message)

\* async ({ timezone }) => ...
getCurrentTimeHandler(timezone, localTz) ==
    LET effectiveTimezone == orLocal(timezone, localTz)
        r == getCurrentTime(effectiveTimezone)
    IN  IF r.ok
        THEN TextResult(stringifyTimeResult(r.value, ""))
        ELSE getCurrentTimeCatch(r.message, effectiveTimezone)

\* The catch block of the convert_time handler.
convertTimeCatch(message, effectiveSourceTz, time, effectiveTargetTz) ==
    IF includes(message, "Invalid source timezone")
    THEN TextResult("Error: Invalid source timezone specified ('" \o effectiveSourceTz
            \o "'). Please provide a valid IANA timezone name.")
    ELSE IF includes(message, "Invalid target timezone")
    THEN TextResult("Error: Invalid target timezone specified ('" \o effectiveTargetTz
            \o "'). Please provide a valid IANA timezone name.")
    ELSE IF includes(message, "Invalid time format")
    THEN TextResult("Error: Invalid time format specified ('" \o time
            \o "'). Please use 24-hour HH:MM format (e.g., '14:30').")
    ELSE TextResult("Error processing convert_time: " \o message)

\* async ({ source_timezone, time, target_timezone }) => ...
convertTimeHandler(source_timezone, time, target_timezone, localTz) ==
    LET effectiveSourceTz == orLocal(source_timezone, localTz)
        effectiveTargetTz == orLocal(target_timezone, localTz)
        r == convertTime(effectiveSourceTz, time, effectiveTargetTz)
    IN  IF r.ok
        THEN TextResult(stringifyConversion(r.value))
        ELSE convertTimeCatch(r.message, effectiveSourceTz, time, effectiveTargetTz)

\* A tools/call of get_current_time reaches its handler: the schema takes any
\* string or nothing.
CallGetCurrentTime(timezone) ==
    /\ call = NoCall
    /\ call' = [NoCall EXCEPT !.name = "get_current_time", !.timezone = timezone]
    /\ result' = getCurrentTimeHandler(timezone, getLocalTimezone)
    /\ UNCHANGED <<clock, applied>>
    /\ UNCHANGED sessionVars

\* A tools/call of convert_time handed to the handler whatever its arguments.
CallConvertTimeUnchecked(source_timezone, time, target_timezone) ==
    /\ call = NoCall
    /\ call' = [NoCall EXCEPT !.name = "convert_time",
                              !.source_timezone = source_timezone,
                              !.time = time,
                              !.target_timezone = target_timezone]
    /\ result' = convertTimeHandler(source_timezone, time, target_timezone,
                                    getLocalTimezone)
    /\ UNCHANGED <<clock, applied>>
    /\ UNCHANGED sessionVars

\* A tools/call of convert_time: the arguments are checked against the
\* schema, and the handler runs only if time matches the pattern.
CallConvertTime(source_timezone, time, target_timezone) ==
    /\ call = NoCall
    /\ call' = [NoCall EXCEPT !.name = "convert_time",
                              !.source_timezone = source_timezone,
                              !.time = time,
                              !.target_timezone = target_timezone]
    /\ result' = IF matchesTimePattern(time)
                 THEN convertTimeHandler(source_timezone, time, target_timezone,
                                         getLocalTimezone)
                 ELSE SchemaRejected
    /\ UNCHANGED <<clock, applied>>
    /\ UNCHANGED sessionVars

\* The result has been written to the transport; the server waits for the
\* next tools/call.
Respond ==
    /\ call # NoCall
    /\ call' = NoCall
    /\ result' = NoResult
    /\ UNCHANGED <<clock, applied>>
    /\ UNCHANGED sessionVars

\* Time passes.
Tick ==
    /\ clock < Len(ClockInstants)
    /\ clock' = clock + 1
    /\ UNCHANGED <<call, result, applied>>
    /\ UNCHANGED sessionVars

ToolInit ==
    /\ Init
    /\ clock = 1

ToolNext ==
    \/ \E timezone \in ZoneArgs : CallGetCurrentTime(timezone)
    \/ \E source_timezone \in ZoneArgs, time \in TimeArgs, target_timezone \in ZoneArgs :
          CallConvertTime(source_timezone, time, target_timezone)
    \/ Respond
    \/ Tick

\* The tools of one tool-serving instance under a running clock.
ToolSpec == ToolInit /\ [][ToolNext]_vars

(***************************************************************************)
(* Tool calls arriving on the sessions of either transport                 *)
(***************************************************************************)
\* The McpServer instances with an initialized transport that is still open.
LiveServers ==
    {s \in 1..Len(servers) : \E h \in servers[s] :
        /\ transports[h].connected
        /\ ~transports[h].closed
        /\ Truthy(transports[h].sessionId)}

\* A zone argument left out, or given.
AbsentOrGiven == {undefined, "Asia/Tokyo"}

\* A tools/call arrives on the session McpServer s serves and runs the tool
\* handler of that instance, with the localTz the instance closed over.
CallOnSession(s, name, zone) ==
    /\ s \in LiveServers
    /\ call = NoCall
    /\ call' = IF name = "get_current_time"
               THEN [NoCall EXCEPT !.name = name, !.server = s, !.timezone = zone]
               ELSE [NoCall EXCEPT !.name = name, !.server = s, !.source_timezone = zone,
                                   !.time = "14:30", !.target_timezone = zone]
    /\ result' = IF name = "get_current_time"
                 THEN getCurrentTimeHandler(zone, localTzs[s])
                 ELSE convertTimeHandler(zone, "14:30", zone, localTzs[s])
    /\ UNCHANGED <<clock, applied>>
    /\ UNCHANGED sessionVars

\* Sessions are opened and closed on both transports while tools are called
\* on them and time passes.
ZoneNext ==
    \/ McpRequest(undefined, "POST", "initialize") /\ UNCHANGED inflight
    \/ \E p \in pending : McpHandshakeResume(p) /\ UNCHANGED inflight
    \/ \E h \in Handles : StreamableClose(h) /\ UNCHANGED inflight
    \/ SseOpen /\ UNCHANGED inflight
    \/ \E h \in Handles : SseConnected(h) /\ UNCHANGED inflight
    \/ \E h \in Handles : SseClose(h) /\ UNCHANGED inflight
    \/ \E s \in 1..Len(servers), name \in {"get_current_time", "convert_time"},
           zone \in AbsentOrGiven : CallOnSession(s, name, zone)
    \/ Respond
    \/ Tick

ZoneSpec == Init /\ [][ZoneNext]_vars

(***************************************************************************)
(* 2. The Time Engine functions applied directly                           *)
(***************************************************************************)
\* Offset differences up to MaxDelta minutes either way are formatted.
MaxDelta == 1560

\* Zone names handed to convertTime: the handler has replaced absent ones.
EngineZones == ValidZones \cup {"Mars/Gale_Crater", "Invalid source timezone"}

\* Time strings handed to convertTime.
EngineTimes == (TimeArgs \ {undefined}) \cup {"01:30", "24:30", "14:30:00", "ab:cd"}

\* The local HH:MM a datetime string of a result shows.
HHMM(datetime) == SubSeq(datetime, 12, 16)

\* The time_difference string is computed for an offset difference.
ApplyTimeDiffStr(d) ==
    /\ applied = NoApplication
    /\ applied' = [fn |-> "timeDiffStr", d |-> d, out |-> timeDiffStr(d)]
    /\ UNCHANGED <<clock, call, result>>
    /\ UNCHANGED sessionVars

\* convertTime(sourceTz, timeStr, targetTz) is evaluated at the current instant.
ApplyConvertTime(sourceTz, timeStr, targetTz) ==
    /\ applied = NoApplication
    /\ applied' = [fn |-> "convertTime", sourceTz |-> sourceTz, timeStr |-> timeStr,
                   targetTz |-> targetTz, at |-> clock,
                   out |-> convertTime(sourceTz, timeStr, targetTz)]
    /\ UNCHANGED <<clock, call, result>>
    /\ UNCHANGED sessionVars

\* The caller of a successful conversion asks for the way back: the target's
\* local HH:MM, from the target zone to the source zone.
ApplyConvertBack ==
    /\ applied.fn = "convertTime"
    /\ applied.out.ok
    /\ applied' = [fn |-> "convertBack", first |-> applied, at |-> clock,
                   out |-> convertTime(applied.targetTz,
                                       HHMM(applied.out.value.target.datetime),
                                       applied.sourceTz)]
    /\ UNCHANGED <<clock, call, result>>
    /\ UNCHANGED sessionVars

\* The value has been consumed.
Forget ==
    /\ applied # NoApplication
    /\ applied' = NoApplication
    /\ UNCHANGED <<clock, call, result>>
    /\ UNCHANGED sessionVars

EngineInit ==
    /\ Init
    /\ clock = 1

EngineNext ==
    \/ \E d \in (-MaxDelta)..MaxDelta : ApplyTimeDiffStr(d)
    \/ \E sourceTz \in EngineZones, timeStr \in EngineTimes, targetTz \in EngineZones :
          ApplyConvertTime(sourceTz, timeStr, targetTz)
    \/ ApplyConvertBack
    \/ Forget
    \/ Tick

\* The functions of the Time Engine under a running clock.
EngineSpec == EngineInit /\ [][EngineNext]_vars

(***************************************************************************)
(* Properties of the session tables                                        *)
(***************************************************************************)
\* The step just taken is of kind op.
Did(op) == last'.op = op

\* Identifiers of streamable transports whose onclose has run.
ClosedStreamableIds ==
    {transports[h].sessionId : h \in {g \in Handles :
        /\ transports[g].kind = "streamable"
        /\ transports[g].closed
        /\ Truthy(transports[g].sessionId)}}

\* Identifiers of legacy transports whose stream has closed.
ClosedSseIds ==
    {transports[h].sessionId : h \in {g \in Handles :
        transports[g].kind = "sse" /\ transports[g].closed}}

\* Identifiers ever issued to transports of one kind.
IdsOf(kind) ==
    {transports[h].sessionId : h \in {g \in Handles :
        transports[g].kind = kind /\ Truthy(transports[g].sessionId)}}

\* C1: a /mcp request that is no handshake and whose session identifier is
\* absent or is no key of the streamable table is answered 400 with the
\* invalid-handshake body, creates nothing, changes no table and reaches no
\* transport.
C1_NonHandshakeRejected ==
    [][(/\ Did("mcp")
        /\ ~isInitializeRequest(last'.body)
        /\ last'.sessionId \notin DOMAIN streamableTransports)
       => (/\ last'.status = 400
           /\ last'.resBody = BadHandshakeBody
           /\ ~last'.threw
           /\ last'.transport = Undefined
           /\ last'.created = Undefined
           /\ UNCHANGED <<streamableTransports, sseTransports, transports, servers>>)]_vars

\* C2: a /mcp request without session identifier is accepted only as an
\* initialize message; accepting it constructs one transport and one
\* McpServer connected to it alone; the completed initialization draws an
\* identifier that is no key of the streamable table and registers the new
\* transport under it, leaving the older entries as they were; the
\* initialized transports keep distinct identifiers, each open one registered.
C2_HandshakeCreatesSession ==
    /\ [][(Did("mcp") /\ ~Truthy(last'.sessionId) /\ last'.status # 400)
          => (/\ isInitializeRequest(last'.body)
              /\ last'.created = Len(transports) + 1
              /\ Len(transports') = Len(transports) + 1
              /\ transports'[last'.created].kind = "streamable"
              /\ Len(servers') = Len(servers) + 1
              /\ servers'[Len(servers')] = {last'.created}
              /\ \A s \in 1..Len(servers) : servers'[s] = servers[s]
              /\ UNCHANGED <<streamableTransports, sseTransports>>)]_vars
    /\ [][(Did("mcpInit") /\ last'.issued # undefined)
          => (/\ last'.issued \notin DOMAIN streamableTransports
              /\ DOMAIN streamableTransports' =
                    DOMAIN streamableTransports \cup {last'.issued}
              /\ streamableTransports'[last'.issued] = last'.transport
              /\ transports'[last'.transport].sessionId = last'.issued
              /\ \A k \in DOMAIN streamableTransports :
                    streamableTransports'[k] = streamableTransports[k]
              /\ UNCHANGED <<sseTransports, servers>>)]_vars
    /\ [](\A g, h \in Handles :
            (/\ transports[g].kind = "streamable"
             /\ transports[h].kind = "streamable"
             /\ Truthy(transports[g].sessionId)
             /\ transports[g].sessionId = transports[h].sessionId) => g = h)
    /\ [](\A h \in Handles :
            (/\ transports[h].kind = "streamable"
             /\ Truthy(transports[h].sessionId)
             /\ ~transports[h].closed)
            => Get(streamableTransports, transports[h].sessionId) = h)

\* C2 witness: a second handshake has completed while the first session is
\* still registered.
C2_Witness ==
    /\ last.op = "mcpInit"
    /\ last.issued # undefined
    /\ Cardinality(DOMAIN streamableTransports) = 2

\* C3: a /mcp request whose session identifier is a key of the streamable
\* table goes to the transport registered under it; nothing is constructed
\* and no table changes.
C3_KnownSessionReused ==
    [][(Did("mcp") /\ last'.sessionId \in DOMAIN streamableTransports)
       => (/\ last'.transport = streamableTransports[last'.sessionId]
           /\ transports[last'.transport].sessionId = last'.sessionId
           /\ last'.status # 400
           /\ ~last'.threw
           /\ last'.created = Undefined
           /\ UNCHANGED <<streamableTransports, sseTransports, transports, servers, pending>>)]_vars

\* C3 witness: with two sessions registered, a tool call was routed to the
\* second one.
C3_Witness ==
    /\ last.op = "mcp"
    /\ last.body = "tools/call"
    /\ Cardinality(DOMAIN streamableTransports) = 2
    /\ last.transport = 2
    /\ last.sessionId \in DOMAIN streamableTransports

\* C4: the close of a streamable transport removes the entry under the
\* transport's own identifier and nothing else; a close of a transport that
\* is closed already or was never registered changes no table; afterwards no
\* entry exists under a closed identifier and every request bearing one is
\* answered 400.
C4_CloseRemovesEntry ==
    /\ [][Did("mcpClose")
          => (/\ streamableTransports' =
                    IF Truthy(last'.sessionId)
                    THEN Delete(streamableTransports, last'.sessionId)
                    ELSE streamableTransports
              /\ last'.sessionId = transports[last'.transport].sessionId
              /\ last'.sessionId \notin DOMAIN streamableTransports'
              /\ UNCHANGED sseTransports
              /\ (last'.repeat \/ ~Truthy(last'.sessionId)
                    \/ last'.sessionId \notin DOMAIN streamableTransports)
                 => UNCHANGED streamableTransports)]_vars
    /\ [](ClosedStreamableIds \cap DOMAIN streamableTransports = {})
    /\ [][(Did("mcp") /\ last'.sessionId \in ClosedStreamableIds)
          => (/\ last'.status = 400
              /\ last'.resBody = BadHandshakeBody
              /\ last'.transport = Undefined
              /\ last'.created = Undefined)]_vars

\* C4 witness: an initialize request bearing the identifier of a closed
\* session has been answered, while another session is still registered.
C4_Witness ==
    /\ last.op = "mcp"
    /\ last.sessionId \in ClosedStreamableIds
    /\ last.body = "initialize"
    /\ DOMAIN streamableTransports # {}

\* C4 second witness state: a transport that was closed before is closed again.
C4_RepeatedClose == last.op = "mcpClose" /\ last.repeat /\ Truthy(last.sessionId)

\* C5: a /messages request whose sessionId is no key of the legacy table is
\* answered 400 "Unknown or expired sessionId", reaches no transport and
\* changes no table.
C5_UnknownSessionRejected ==
    [][(Did("messages") /\ last'.sessionId \notin DOMAIN sseTransports)
       => (/\ last'.status = 400
           /\ last'.resBody = UnknownSessionBody
           /\ ~last'.threw
           /\ last'.transport = Undefined
           /\ UNCHANGED <<streamableTransports, sseTransports, transports, servers>>)]_vars

\* C6: every GET /sse constructs a transport with a fresh identifier, puts it
\* into the legacy table under that identifier in the same step, and connects
\* it to a McpServer of its own; the streamable table is untouched; a legacy
\* transport is in the table from its construction until its stream closes,
\* connected or not.
C6_SseOpenRegisters ==
    /\ [][Did("sseOpen")
          => (/\ last'.created = Len(transports) + 1
              /\ Len(transports') = Len(transports) + 1
              /\ transports'[last'.created].kind = "sse"
              /\ transports'[last'.created].sessionId = last'.issued
              /\ Truthy(last'.issued)
              /\ last'.issued \notin DOMAIN sseTransports
              /\ last'.issued \notin DOMAIN streamableTransports
              /\ DOMAIN sseTransports' = DOMAIN sseTransports \cup {last'.issued}
              /\ sseTransports'[last'.issued] = last'.created
              /\ \A k \in DOMAIN sseTransports : sseTransports'[k] = sseTransports[k]
              /\ Len(servers') = Len(servers) + 1
              /\ servers'[Len(servers')] = {last'.created}
              /\ \A s \in 1..Len(servers) : servers'[s] = servers[s]
              /\ UNCHANGED streamableTransports)]_vars
    /\ [](\A h \in Handles :
            (transports[h].kind = "sse" /\ ~transports[h].closed)
            => Get(sseTransports, transports[h].sessionId) = h)

\* C6 witness: a second stream was opened while the first one is registered
\* and its server has not finished connecting.
C6_Witness ==
    /\ last.op = "sseOpen"
    /\ Cardinality(DOMAIN sseTransports) = 2
    /\ \E h \in Handles : transports[h].kind = "sse" /\ ~transports[h].connected

\* C7: the close of a legacy stream removes the stream's entry, whether or
\* not its server has finished connecting, and touches no other entry;
\* afterwards every message bearing that identifier is answered 400 unknown.
C7_SseCloseRemovesEntry ==
    /\ [][Did("sseClose")
          => (/\ last'.sessionId = transports[last'.transport].sessionId
              /\ last'.sessionId \in DOMAIN sseTransports
              /\ sseTransports' = Delete(sseTransports, last'.sessionId)
              /\ last'.sessionId \notin DOMAIN sseTransports'
              /\ UNCHANGED streamableTransports)]_vars
    /\ [](ClosedSseIds \cap DOMAIN sseTransports = {})
    /\ [][(Did("messages") /\ last'.sessionId \in ClosedSseIds)
          => (/\ last'.status = 400
              /\ last'.resBody = UnknownSessionBody
              /\ last'.transport = Undefined)]_vars

\* C7 witness: a stream closed before its server had finished connecting,
\* while another legacy session stays registered.
C7_Witness ==
    /\ last.op = "sseClose"
    /\ last.early
    /\ DOMAIN sseTransports # {}

\* C7 second witness state: a message for a closed stream has been answered.
C7_LateMessage == last.op = "messages" /\ last.sessionId \in ClosedSseIds

\* C8: no identifier is a key of both tables; an identifier issued by a
\* streamable handshake is never taken by /messages and one issued by GET /sse
\* is never taken by /mcp as a known session; the streamable steps leave the
\* legacy table alone and the legacy steps the streamable table.
C8_TablesDisjoint ==
    /\ [](DOMAIN streamableTransports \cap DOMAIN sseTransports = {})
    /\ [](\A k \in DOMAIN streamableTransports :
            transports[streamableTransports[k]].kind = "streamable")
    /\ [](\A k \in DOMAIN sseTransports :
            transports[sseTransports[k]].kind = "sse")
    /\ [][(Did("messages") /\ last'.sessionId \in IdsOf("streamable"))
          => (last'.status = 400 /\ last'.transport = Undefined)]_vars
    /\ [][(Did("mcp") /\ last'.sessionId \in IdsOf("sse"))
          => (last'.status = 400 /\ last'.transport = Undefined)]_vars
    /\ [][(Did("mcp") \/ Did("mcpInit") \/ Did("mcpClose"))
          => UNCHANGED sseTransports]_vars
    /\ [][(Did("sseOpen") \/ Did("sseConnected") \/ Did("sseClose") \/ Did("messages"))
          => UNCHANGED streamableTransports]_vars

\* C8 witness: with a session of each kind registered, /messages was sent the
\* streamable identifier.
C8_Witness ==
    /\ last.op = "messages"
    /\ last.sessionId \in DOMAIN streamableTransports
    /\ DOMAIN sseTransports # {}

\* C8 second witness state: /mcp was sent a registered legacy identifier.
C8_LegacyIdOnMcp ==
    /\ last.op = "mcp"
    /\ last.sessionId \in DOMAIN sseTransports
    /\ DOMAIN streamableTransports # {}

\* C9: buildMcpServer is called once per transport constructed; no McpServer
\* is connected to two transports, every transport has one McpServer of its
\* own, and a request routed to a transport is served by that one alone.
C9_OneServerPerSession ==
    /\ Len(servers) = Len(transports)
    /\ \A s \in 1..Len(servers) : Cardinality(servers[s]) <= 1
    /\ \A h \in Handles : Cardinality(ServersOf(h)) = 1
    /\ \A g, h \in Handles : g # h => ServersOf(g) \cap ServersOf(h) = {}
    /\ (last.op \in {"mcp", "mcpInit", "messages"} /\ last.transport \in Handles)
       => (last.servedBy = ServersOf(last.transport) /\ Cardinality(last.servedBy) = 1)

\* C9 witness: with a streamable and a legacy session both live, a tool call
\* was served on one of them.
C9_Witness ==
    /\ last.body = "tools/call"
    /\ last.transport \in Handles
    /\ DOMAIN streamableTransports # {}
    /\ DOMAIN sseTransports # {}

(***************************************************************************)
(* Properties of the tool handlers                                         *)
(***************************************************************************)
\* The zone an absent or empty argument stands for.
Effective(zone) == IF Truthy(zone) THEN zone ELSE getLocalTimezone

\* The text quotes the value, as ('value').
Names(text, value) == includes(text, "('" \o value \o "')")

\* The text is an error message, not a serialized result.
IsErrorText(text) == SubSeq(text, 1, 6) = "Error:"

\* The text is a serialized object.
IsJsonText(text) == charAt(text, 1) = "{" /\ charAt(text, Len(text)) = "}"

\* What the text of a get_current_time result has to be.
GetCurrentTimeTextOk(text) ==
    LET zone == Effective(call.timezone) IN
    IF zone \in ValidZones
    THEN /\ IsJsonText(text)
         /\ includes(text, "\"timezone\": \"" \o zone \o "\"")
         /\ includes(text, "\"datetime\": \"2025-03-")
    ELSE IsErrorText(text) /\ Names(text, zone)

\* What the text of a convert_time result has to be: an error naming the
\* first invalid zone, else an error naming a time out of range, else the
\* result (24:00 may be taken either way here).
ConvertTimeTextOk(text) ==
    LET source == Effective(call.source_timezone)
        target == Effective(call.target_timezone)
    IN  IF source \notin ValidZones
        THEN IsErrorText(text) /\ Names(text, source)
        ELSE IF target \notin ValidZones
        THEN IsErrorText(text) /\ Names(text, target)
        ELSE IF call.time \in {"25:00", "12:60"}
        THEN IsErrorText(text) /\ Names(text, call.time) /\ includes(text, "HH:MM")
        ELSE IF call.time = "24:00" /\ IsErrorText(text)
        THEN Names(text, call.time) /\ includes(text, "HH:MM")
        ELSE /\ IsJsonText(text)
             /\ includes(text, "\"source\": {\n    \"timezone\": \"" \o source \o "\"")
             /\ includes(text, "\"target\": {\n    \"timezone\": \"" \o target \o "\"")
             /\ includes(text, "\"time_difference\": \"")

\* C10: every run of a tool handler returns one text item and throws nothing;
\* the text of a failure names the offending value (the effective zone that
\* is invalid, or the time together with the HH:MM pattern), the text of a
\* success is the serialized result.
C10_HandlerAlwaysReturnsText ==
    (call # NoCall /\ result.reached)
    => /\ ~result.threw
       /\ Len(result.content) = 1
       /\ result.content[1].type = "text"
       /\ IF call.name = "get_current_time"
          THEN GetCurrentTimeTextOk(result.content[1].text)
          ELSE ConvertTimeTextOk(result.content[1].text)

\* C10 for callers whose zone arguments do not read like an error message of
\* convertTime.
C10_ExceptMessageLikeZones ==
    (/\ call # NoCall
     /\ result.reached
     /\ ~includes(Effective(call.target_timezone), "Invalid source timezone"))
    => C10_HandlerAlwaysReturnsText

\* A convert_time failure on an unknown target zone has been reported.
C10_TargetErrorReported ==
    /\ call.name = "convert_time"
    /\ result.reached
    /\ Effective(call.source_timezone) \in ValidZones
    /\ call.target_timezone = "Mars/Gale_Crater"

(***************************************************************************)
(* Properties of the Time Engine                                           *)
(***************************************************************************)
\* Every character of s is a decimal digit, and there is one at least.
AllDigits(s) == Len(s) > 0 /\ \A i \in 1..Len(s) : charAt(s, i) \in Digits

RECURSIVE NatOf(_)
\* The number a string of decimal digits denotes.
NatOf(s) ==
    IF Len(s) = 0 THEN 0
    ELSE 10 * NatOf(SubSeq(s, 1, Len(s) - 1)) + digitValue(charAt(s, Len(s)))

\* The position of the first c in s, or 0.
IndexOf(s, c) ==
    LET P == {i \in 1..Len(s) : charAt(s, i) = c}
    IN  IF P = {} THEN 0 ELSE CHOOSE i \in P : \A j \in P : i <= j

\* C11: for every offset difference d in minutes the time_difference string
\* is one sign, '+' for d >= 0 and '-' for d < 0, then |d| / 60 in hours,
\* then 'h': whole hours carry no decimal point, other values are rounded to
\* two decimals with a trailing zero stripped; 0 gives "+0h", 480 "+8h",
\* -300 "-5h", 345 "+5.75h" and 330 "+5.5h".
C11_TimeDifferenceFormat ==
    applied.fn = "timeDiffStr" =>
        LET d == applied.d
            out == applied.out
            n == Len(out)
            body == SubSeq(out, 2, n - 1)
            dot == IndexOf(body, ".")
            whole == IF dot = 0 THEN body ELSE SubSeq(body, 1, dot - 1)
            frac == IF dot = 0 THEN "" ELSE SubSeq(body, dot + 1, Len(body))
            abs == IF d < 0 THEN -d ELSE d
            value100 == 100 * NatOf(whole)
                            + (IF Len(frac) = 1 THEN 10 * NatOf(frac) ELSE NatOf(frac))
        IN  /\ n >= 3
            /\ charAt(out, n) = "h"
            /\ charAt(out, 1) = (IF d >= 0 THEN "+" ELSE "-")
            /\ AllDigits(whole)
            /\ (Len(whole) > 1 => charAt(whole, 1) # "0")
            /\ (dot = 0) <=> (d % 60 = 0)
            /\ dot # 0 => (/\ Len(frac) \in {1, 2}
                           /\ AllDigits(frac)
                           /\ charAt(frac, Len(frac)) # "0")
            /\ 60 * value100 - 100 * abs \in (-30)..30
            /\ (d = 0 => out = "+0h")
            /\ (d = 480 => out = "+8h")
            /\ (d = -300 => out = "-5h")
            /\ (d = 345 => out = "+5.75h")
            /\ (d = 330 => out = "+5.5h")

\* C11 witness: a negative difference that is no whole number of hours has
\* been formatted.
C11_Witness ==
    /\ applied.fn = "timeDiffStr"
    /\ applied.d = -345
    /\ applied.out = "-5.75h"

\* What an ISO 8601 string of the results says: the local minute counted from
\* 2025-03-29T00:00, the seconds, the offset in minutes and the instant.
ParseISO(text) ==
    LET n == Len(text)
        day == NatOf(SubSeq(text, 9, 10))
        local == (day - 29) * 1440 + 60 * NatOf(SubSeq(text, 12, 13))
                    + NatOf(SubSeq(text, 15, 16))
        o == IF charAt(text, n) = "Z" THEN 0
             ELSE (IF charAt(text, n - 5) = "-" THEN -1 ELSE 1)
                    * (60 * NatOf(SubSeq(text, n - 4, n - 3)) + NatOf(SubSeq(text, n - 1, n)))
    IN  [local |-> local, seconds |-> SubSeq(text, 18, 19), o |-> o, instant |-> local - o]

\* C12: in every successful conversion the source and the target datetime
\* denote one instant, each shown with the offset its zone has at that
\* instant, and time_difference is the target offset minus the source offset
\* at that instant.
C12_SameInstantAnchoredOffsets ==
    (applied.fn = "convertTime" /\ applied.out.ok) =>
        LET r == applied.out.value
            src == ParseISO(r.source.datetime)
            tgt == ParseISO(r.target.datetime)
        IN  /\ r.source.timezone = applied.sourceTz
            /\ r.target.timezone = applied.targetTz
            /\ src.instant = tgt.instant
            /\ src.seconds = "00"
            /\ tgt.seconds = "00"
            /\ src.o = offset(applied.sourceTz, src.instant)
            /\ tgt.o = offset(applied.targetTz, tgt.instant)
            /\ r.time_difference = timeDiffStr(tgt.o - src.o)

\* C12 witness: shortly before London's clocks go forward, 14:30 London of
\* that day is converted to Tokyo time: the difference is that of the
\* afternoon, not that of the moment of the call.
C12_Witness ==
    /\ applied.fn = "convertTime"
    /\ applied.sourceTz = "Europe/London"
    /\ applied.targetTz = "Asia/Tokyo"
    /\ applied.timeStr = "14:30"
    /\ applied.out.ok
    /\ offset("Europe/London", ClockInstants[applied.at].t) = 0
    /\ applied.out.value.source.datetime = "2025-03-30T14:30:00+01:00"
    /\ applied.out.value.time_difference = "+8h"

\* The zone names the zone database knows, as the claims speak of them.
KnownZone(zone) == zone \in ValidZones

\* text begins with prefix.
StartsWith(text, prefix) == SubSeq(text, 1, Len(prefix)) = prefix

\* C13: convertTime looks at the source zone, then the target zone, then the
\* time string, and reports the first failure only: an invalid source zone
\* gives the source-timezone error whatever the target and the time are, a
\* valid source with an invalid target gives the target-timezone error
\* whatever the time is, and the time-format error comes with two valid
\* zones only.
C13_FirstFailureReported ==
    applied.fn = "convertTime" =>
        /\ ~KnownZone(applied.sourceTz)
              => (/\ ~applied.out.ok
                  /\ applied.out.message = "Invalid source timezone: " \o applied.sourceTz)
        /\ (KnownZone(applied.sourceTz) /\ ~KnownZone(applied.targetTz))
              => (/\ ~applied.out.ok
                  /\ applied.out.message = "Invalid target timezone: " \o applied.targetTz)
        /\ (~applied.out.ok /\ StartsWith(applied.out.message, "Invalid time format"))
              => (KnownZone(applied.sourceTz) /\ KnownZone(applied.targetTz))

\* C13 witness: all three arguments are bad and the source zone is reported.
C13_Witness ==
    /\ applied.fn = "convertTime"
    /\ applied.sourceTz = "Mars/Gale_Crater"
    /\ applied.targetTz = "Invalid source timezone"
    /\ applied.timeStr = " lunchtime "
    /\ applied.out.message = "Invalid source timezone: Mars/Gale_Crater"

\* C13 second witness state: a valid source, a bad target and a bad time.
C13_TargetBeforeTime ==
    /\ applied.fn = "convertTime"
    /\ applied.sourceTz = "Asia/Tokyo"
    /\ applied.targetTz = "Mars/Gale_Crater"
    /\ applied.timeStr = "25:00"
    /\ applied.out.message = "Invalid target timezone: Mars/Gale_Crater"

\* Two digits, a colon and two digits, the hour 00..23 and the minute 00..59.
WellFormedHHMM(text) ==
    /\ Len(text) = 5
    /\ AllDigits(SubSeq(text, 1, 2))
    /\ charAt(text, 3) = ":"
    /\ AllDigits(SubSeq(text, 4, 5))
    /\ NatOf(SubSeq(text, 1, 2)) <= 23
    /\ NatOf(SubSeq(text, 4, 5)) <= 59

\* The outcome of convertTime on a time string, both zones being valid, is
\* success for a well-formed HH:MM and the time-format error otherwise.
TimeStringOutcomeOk ==
    /\ applied.out.ok <=> WellFormedHHMM(applied.timeStr)
    /\ ~applied.out.ok
          => applied.out.message = "Invalid time format. Expected HH:MM [24-hour format]"

\* C14: with both zones valid, convertTime accepts the time string exactly
\* when it is two digits, a colon and two digits with hour 00..23 and minute
\* 00..59; every other string, "24:00" and "25:00" among them, gives the
\* time-format error naming HH:MM.
C14_TimeStringAccepted ==
    (/\ applied.fn = "convertTime"
     /\ KnownZone(applied.sourceTz)
     /\ KnownZone(applied.targetTz))
    => TimeStringOutcomeOk

\* C14, for every time string but "24:00".
C14_Except2400 ==
    (/\ applied.fn = "convertTime"
     /\ KnownZone(applied.sourceTz)
     /\ KnownZone(applied.targetTz)
     /\ applied.timeStr # "24:00")
    => TimeStringOutcomeOk

\* "24:00" has been converted without an error.
C14_2400Accepted ==
    /\ applied.fn = "convertTime"
    /\ applied.timeStr = "24:00"
    /\ applied.out.ok
    /\ HHMM(applied.out.value.source.datetime) = "00:00"

(***************************************************************************)
(* Properties of the tools on their sessions                               *)
(***************************************************************************)
\* The text of the tool result at hand.
ResultText == result.content[1].text

\* C15: the zone an absent timezone, source_timezone or target_timezone
\* stands for is one value for the whole process: every McpServer, whenever
\* it was built and for whichever transport, holds the same localTz, and
\* every call that leaves the zone out is answered for that zone, at any time.
C15_DefaultZoneFixed ==
    /\ Len(localTzs) = Len(servers)
    /\ \A s \in 1..Len(localTzs) : localTzs[s] = localTzs[1]
    /\ (call.name = "get_current_time" /\ call.server > 0 /\ call.timezone = undefined)
          => includes(ResultText, "{\n  \"timezone\": \"" \o localTzs[1] \o "\",")
    /\ (call.name = "convert_time" /\ call.server > 0 /\ call.source_timezone = undefined)
          => (/\ includes(ResultText,
                    "\"source\": {\n    \"timezone\": \"" \o localTzs[1] \o "\",")
              /\ includes(ResultText,
                    "\"target\": {\n    \"timezone\": \"" \o localTzs[1] \o "\","))

\* C15 witness: a streamable and a legacy session are open, time has passed,
\* and a call without zone on the session opened second is answered for the
\* zone the first one holds.
C15_Witness ==
    /\ call.name = "get_current_time"
    /\ call.server = 2
    /\ call.timezone = undefined
    /\ clock = Len(ClockInstants)
    /\ \E g, h \in Handles : transports[g].kind # transports[h].kind
    /\ includes(ResultText, "\"timezone\": \"Europe/London\"")

\* The offsets the zones of the model ever have, in minutes.
ZoneOffsets == {offset(zone, ClockInstants[c].t + k * 1440) :
                    zone \in ValidZones, c \in 1..Len(ClockInstants), k \in {-2, 2}}

\* Some instant shows the local minute localTS in the zone.
ExistsLocally(zone, localTS) == \E o \in ZoneOffsets : offset(zone, localTS - o) = o

\* The hours a time_difference string states, in signed hundredths.
SignedHundredths(diff) ==
    LET body == SubSeq(diff, 2, Len(diff) - 1)
        dot == IndexOf(body, ".")
        whole == IF dot = 0 THEN body ELSE SubSeq(body, 1, dot - 1)
        frac == IF dot = 0 THEN "" ELSE SubSeq(body, dot + 1, Len(body))
        value100 == 100 * NatOf(whole)
                        + (IF Len(frac) = 1 THEN 10 * NatOf(frac) ELSE NatOf(frac))
    IN  IF charAt(diff, 1) = "-" THEN -value100 ELSE value100

\* A conversion of a well-formed time and the conversion back were both
\* anchored at one instant.
SameAnchor ==
    /\ applied.fn = "convertBack"
    /\ applied.out.ok
    /\ WellFormedHHMM(applied.first.timeStr)
    /\ ParseISO(applied.out.value.source.datetime).instant
          = ParseISO(applied.first.out.value.target.datetime).instant

\* The two time_difference values of a round trip are negations of each other.
DifferencesNegated ==
    SignedHundredths(applied.out.value.time_difference)
        = -SignedHundredths(applied.first.out.value.time_difference)

\* C16 as stated: converting a time t of hour 00..23 and minute 00..59 from A
\* to B and the resulting local HH:MM back from B to A, both at one anchor
\* instant, gives t again, and the two time_difference values are negations
\* of each other.
C16_RoundTripReturnsT ==
    SameAnchor =>
        /\ HHMM(applied.out.value.target.datetime) = applied.first.timeStr
        /\ DifferencesNegated

\* C16: converting a time t of hour 00..23 and minute 00..59 from A to B and
\* the resulting local HH:MM back from B to A, both at one anchor instant,
\* gives the local HH:MM of the first conversion's source datetime, and the
\* two time_difference values are negations of each other; that HH:MM is t
\* whenever some instant of the anchor date shows t in A.
C16_RoundTripReturnsSourceTime ==
    /\ SameAnchor =>
          /\ HHMM(applied.out.value.target.datetime)
                = HHMM(applied.first.out.value.source.datetime)
          /\ applied.out.value.target.timezone = applied.first.sourceTz
          /\ DifferencesNegated
    /\ (applied.fn = "convertTime" /\ applied.out.ok)
          => LET shown == ParseISO(applied.out.value.source.datetime)
                 asked == (shown.local \div 1440) * 1440
                            + 60 * NatOf(SubSeq(applied.timeStr, 1, 2))
                            + NatOf(SubSeq(applied.timeStr, 4, 5))
             IN  (WellFormedHHMM(applied.timeStr) /\ ExistsLocally(applied.sourceTz, asked))
                    => HHMM(applied.out.value.source.datetime) = applied.timeStr

\* C16 witness: 14:30 London, converted to Kathmandu time and back on the
\* day London's clocks go forward, is 14:30 again.
C16_Witness ==
    /\ SameAnchor
    /\ applied.first.sourceTz = "Europe/London"
    /\ applied.first.targetTz = "Asia/Kathmandu"
    /\ applied.first.timeStr = "14:30"
    /\ applied.first.out.value.time_difference = "+4.75h"
    /\ applied.out.value.time_difference = "-4.75h"
    /\ HHMM(applied.out.value.target.datetime) = "14:30"

\* 01:30 London on the day the clocks go forward comes back as 02:30.
C16_SkippedTime ==
    /\ SameAnchor
    /\ applied.first.sourceTz = "Europe/London"
    /\ applied.first.timeStr = "01:30"
    /\ HHMM(applied.out.value.target.datetime) = "02:30"

\* Two digits, a colon and two digits.
TwoDigitsColonTwoDigits(text) ==
    /\ Len(text) = 5
    /\ AllDigits(SubSeq(text, 1, 2))
    /\ charAt(text, 3) = ":"
    /\ AllDigits(SubSeq(text, 4, 5))

\* C17: the arguments of convert_time are checked against the schema before
\* the handler runs: a call whose time is missing or is not two digits, a
\* colon and two digits never reaches the handler, hence not convertTime;
\* every other call does, and "25:00", which has that shape, is rejected by
\* convertTime with the time-format error.
C17_SchemaBeforeHandler ==
    call.name = "convert_time" =>
        /\ (call.time = undefined \/ ~TwoDigitsColonTwoDigits(call.time))
              => (~result.reached /\ result.content = <<>>)
        /\ (call.time # undefined /\ TwoDigitsColonTwoDigits(call.time))
              => result.reached
        /\ (/\ call.time = "25:00"
            /\ KnownZone(Effective(call.source_timezone))
            /\ KnownZone(Effective(call.target_timezone)))
              => (/\ result.reached
                  /\ ResultText = "Error: Invalid time format specified ('25:00'). "
                        \o "Please use 24-hour HH:MM format (e.g., '14:30').")

\* C17 witness: "25:00" between two valid zones has reached the handler and
\* come back as a time-format error.
C17_Witness ==
    /\ call.name = "convert_time"
    /\ call.time = "25:00"
    /\ call.source_timezone = "Asia/Tokyo"
    /\ call.target_timezone = undefined
    /\ result.reached
    /\ includes(ResultText, "Invalid time format")

\* C17 second witness state: a time of another shape was stopped at the schema.
C17_StoppedAtSchema ==
    /\ call.name = "convert_time"
    /\ call.time = " lunchtime "
    /\ ~result.reached

(***************************************************************************)
(* Properties of the requests in flight and of the tables                  *)
(***************************************************************************)
\* The requests in flight that bore the session identifier sessionId.
InFlightOf(sessionId) == {r \in inflight : r.sessionId = sessionId}

\* C18 as stated: of the requests bearing one session identifier at most one
\* is in flight on the session's transport at any time.
C18_OneInFlightPerSession ==
    \A sessionId \in IssuedIds : Cardinality(InFlightOf(sessionId)) <= 1

\* C18: the routes do not wait for the earlier requests of a session; what
\* holds of the requests in flight that bear one session identifier is that
\* all of them are with one transport, the one whose own identifier it is.
C18_InFlightOnOwnTransport ==
    /\ [](\A r \in inflight :
            /\ r.transport \in Handles
            /\ Truthy(r.sessionId) => transports[r.transport].sessionId = r.sessionId
            /\ \A q \in InFlightOf(r.sessionId) :
                  Truthy(r.sessionId) => q.transport = r.transport)
    /\ [][((Did("mcp") \/ Did("messages")) /\ last'.transport \in Handles)
          => (/\ inflight \subseteq inflight'
              /\ [transport |-> last'.transport, sessionId |-> last'.sessionId,
                  method |-> last'.method] \in inflight')]_vars

\* C18 witness: a GET and a POST bearing the identifier of the session
\* opened second are both in flight on its transport, while the first
\* session has a request in flight too.
C18_Witness ==
    /\ Cardinality(InFlightOf(randomUUID(2))) = 2
    /\ InFlightOf(randomUUID(1)) # {}
    /\ \A r \in InFlightOf(randomUUID(2)) : r.transport = 2

\* Every key of the table maps to an open transport of the kind, whose own
\* session identifier is the key.
TableSound(table, kind) ==
    \A k \in DOMAIN table :
        /\ table[k] \in Handles
        /\ transports[table[k]].kind = kind
        /\ transports[table[k]].sessionId = k
        /\ ~transports[table[k]].closed

\* The transports of a kind whose close has not been processed.
OpenTransports(kind) ==
    {h \in Handles : transports[h].kind = kind /\ ~transports[h].closed}

\* C19: in every reachable state each key of either table maps to the
\* transport whose own session identifier is that key, no table holds a
\* transport whose close has been processed, and no table has more entries
\* than there are open sessions of its kind.
C19_TableIntegrity ==
    /\ TableSound(streamableTransports, "streamable")
    /\ TableSound(sseTransports, "sse")
    /\ Cardinality(DOMAIN streamableTransports) <= Cardinality(OpenTransports("streamable"))
    /\ Cardinality(DOMAIN sseTransports) <= Cardinality(OpenTransports("sse"))

\* C19 witness: after a handshake, a stream-open and the close of one of the
\* two sessions, the other session is the only entry left.
C19_Witness ==
    /\ Len(transports) = 2
    /\ transports[1].kind # transports[2].kind
    /\ last.op \in {"mcpClose", "sseClose"}
    /\ Truthy(last.sessionId)
    /\ Cardinality(DOMAIN streamableTransports) + Cardinality(DOMAIN sseTransports) = 1

\* A /mcp request bearing a session identifier that is no key of the
\* streamable table is answered 400 and creates nothing, whatever its body.
UnknownIdRejected ==
    /\ last'.status = 400
    /\ last'.resBody = BadHandshakeBody
    /\ ~last'.threw
    /\ last'.transport = Undefined
    /\ last'.created = Undefined
    /\ UNCHANGED <<streamableTransports, sseTransports, transports, servers>>

\* C20: a /mcp request that carries a session identifier which is no key of
\* the streamable table is answered 400 even when its body is an initialize
\* message, and only a request that carries no session identifier creates a
\* session; so a stale or closed identifier cannot be used to shake hands
\* again.
C20_UnknownIdCannotHandshake ==
    /\ [][(/\ Did("mcp")
           /\ Truthy(last'.sessionId)
           /\ last'.sessionId \notin DOMAIN streamableTransports)
          => UnknownIdRejected]_vars
    /\ [][(Did("mcp") /\ Len(transports') > Len(transports))
          => ~Truthy(last'.sessionId)]_vars

\* C20 for session identifiers that are no member name of Object.prototype.
C20_ExceptInheritedNames ==
    /\ [][(/\ Did("mcp")
           /\ Truthy(last'.sessionId)
           /\ last'.sessionId \notin DOMAIN streamableTransports
           /\ last'.sessionId \notin ObjectPrototypeKeys)
          => UnknownIdRejected]_vars
    /\ [][(Did("mcp") /\ Len(transports') > Len(transports))
          => ~Truthy(last'.sessionId)]_vars

\* An initialize request bearing the identifier of a closed session has been
\* answered 400.
C20_StaleIdRefused ==
    /\ last.op = "mcp"
    /\ last.body = "initialize"
    /\ last.sessionId \in ClosedStreamableIds
    /\ last.status = 400

\* An initialize request bearing "constructor" has thrown.
C20_InheritedNameThrows ==
    /\ last.op = "mcp"
    /\ last.body = "initialize"
    /\ last.sessionId = "constructor"
    /\ last.threw
    /\ last.status = 0

(***************************************************************************)
(* Properties of the zone arguments                                        *)
(***************************************************************************)
\* The argument as it is when the caller leaves it out instead of passing "".
LeftOut(zone) == IF zone = "" THEN undefined ELSE zone

\* C21: a zone argument passed as the empty string is treated exactly like
\* one left out: the handler answers as it does for the call without it, no
\* error is reported for the empty value, and with the other arguments in
\* order the call succeeds for the default local zone.
C21_EmptyZoneLikeAbsent ==
    /\ [][(call = NoCall /\ call'.name = "get_current_time" /\ call'.timezone = "")
          => result' = getCurrentTimeHandler(undefined, getLocalTimezone)]_vars
    /\ [][(/\ call = NoCall
           /\ call'.name = "convert_time"
           /\ result'.reached
           /\ (call'.source_timezone = "" \/ call'.target_timezone = ""))
          => result' = convertTimeHandler(LeftOut(call'.source_timezone), call'.time,
                                          LeftOut(call'.target_timezone),
                                          getLocalTimezone)]_vars
    /\ []((call.name = "get_current_time" /\ call.timezone = "")
            => (/\ IsJsonText(ResultText)
                /\ includes(ResultText, "{\n  \"timezone\": \"Europe/London\",")
                /\ ~Names(ResultText, "")))
    /\ []((/\ call.name = "convert_time"
           /\ result.reached
           /\ (call.source_timezone = "" \/ call.target_timezone = ""))
            => (/\ ~Names(ResultText, "")
                /\ (/\ WellFormedHHMM(call.time)
                    /\ KnownZone(Effective(call.source_timezone))
                    /\ KnownZone(Effective(call.target_timezone)))
                      => (/\ IsJsonText(ResultText)
                          /\ call.source_timezone = ""
                                => includes(ResultText,
                                      "\"source\": {\n    \"timezone\": \"Europe/London\",")
                          /\ call.target_timezone = ""
                                => includes(ResultText,
                                      "\"target\": {\n    \"timezone\": \"Europe/London\","))))

\* C21 witness: convert_time with "" as source zone and Asia/Tokyo as target
\* has been answered with a conversion from the local zone.
C21_Witness ==
    /\ call.name = "convert_time"
    /\ call.source_timezone = ""
    /\ call.time = "14:30"
    /\ call.target_timezone = "Asia/Tokyo"
    /\ IsJsonText(ResultText)
    /\ includes(ResultText, "\"source\": {\n    \"timezone\": \"Europe/London\",")

\* C21 second witness state: get_current_time with "" as timezone has been
\* answered with the local time.
C21_EmptyTimezoneAnswered ==
    /\ call.name = "get_current_time"
    /\ call.timezone = ""
    /\ IsJsonText(ResultText)

====
